---- MODULE Spec2Model ----
(***************************************************************************)
(* A model of the supercluster crate (src/src/supercluster.rs): the        *)
(* hierarchical clustering done by load, and the read-only queries         *)
(* get_clusters, get_children, get_leaves, get_tile and                    *)
(* get_cluster_expansion_zoom, as built with the cluster_metadata feature. *)
(*                                                                         *)
(* Arithmetic.  The code works on f64.  The model keeps every normalized   *)
(* coordinate in fixed point: the unit square [0,1] is 0..Grid.  Grid is   *)
(* a multiple of every denominator the modelled inputs can produce         *)
(* (tile paddings, radii per zoom, centroids of up to MaxPoints points),   *)
(* so the divisions the code performs are exact on the modelled inputs.    *)
(* Caller longitudes and latitudes are counted in units of 1/Turn of a     *)
(* full turn, so the source's literal 360.0 is Turn, 180.0 is HalfTurn     *)
(* and 90.0 is QuarterTurn.                                                *)
(***************************************************************************)
EXTENDS Integers, Sequences, FiniteSets, TLC

VARIABLES options, points, trees, res

vars == <<options, points, trees, res>>

(***************************************************************************)
(* Bounds of the model.                                                    *)
(***************************************************************************)
MaxPoints == 3

MaxLimit == 3

MaxOffset == 2

MaxQueryZoom == 3

MaxCountSteps == 30

(***************************************************************************)
(* Arithmetic helpers.                                                     *)
(***************************************************************************)
RECURSIVE Gcd(_, _)
Gcd(a, b) == IF b = 0 THEN a ELSE Gcd(b, a % b)

RECURSIVE LcmUpTo(_)
LcmUpTo(n) == IF n <= 1 THEN 1 ELSE (LcmUpTo(n - 1) * n) \div Gcd(LcmUpTo(n - 1), n)

Unit == LcmUpTo(MaxPoints)

Grid == 8192 * Unit

Turn == 2 ^ 11

HalfTurn == Turn \div 2

QuarterTurn == Turn \div 4

Abs(a) == IF a < 0 THEN -a ELSE a

Min(a, b) == IF a <= b THEN a ELSE b

Max(a, b) == IF a >= b THEN a ELSE b

\* f64::round: to the nearest integer, halves away from zero; a / b with b > 0
Round(a, b) == IF a >= 0 THEN (2 * a + b) \div (2 * b) ELSE -((2 * (-a) + b) \div (2 * b))

\* f64::clamp
Clamp(v, lo, hi) == IF v < lo THEN lo ELSE IF v > hi THEN hi ELSE v

\* f64::INFINITY in the zoomProcessed slot of a row
INFINITY == 1000000

(***************************************************************************)
(* Projection.                                                             *)
(***************************************************************************)
\* lng / 360.0 + 0.5
convert_longitude_to_spherical_mercator(lng) == (lng * Grid) \div Turn + Grid \div 2

\* The values of 0.5 - 0.25 * ln((1 + sin) / (1 - sin)) / PI at the latitudes
\* the unit tests pin (0 -> 0.5, 45 -> 0.3597, -45 -> 0.6403, 90 -> 0, -90 -> 1),
\* joined by straight lines, then clamped to [0, 1].
MercatorKnot45 == (92 * Grid) \div 256

convert_latitude_to_spherical_mercator(lat) ==
    LET eighth == Turn \div 8
        a == Abs(lat)
        half == Grid \div 2
        up == IF a <= eighth
                THEN ((half - MercatorKnot45) * a) \div eighth
                ELSE (half - MercatorKnot45) + (MercatorKnot45 * (a - eighth)) \div eighth
        y == IF lat >= 0 THEN half - up ELSE half + up
    IN Clamp(y, 0, Grid)

\* DataRange::offset and DataRange::scale, without cached values
range_offset(range) == Min(range.min_x, range.min_y)

range_scale(range) == Max(range.max_x, range.max_y) - range_offset(range)

\* normalize that multiplies by the scale, as denormalize does
NormalizeMultiplying(range, v) == (v - range_offset(range)) * Grid * range_scale(range)

\* DataRange::normalize: (v - offset) / scale
normalize(range, v) == ((v - range_offset(range)) * Grid) \div range_scale(range)

to_nx(o, x) ==
    IF o.coordinate_system = "Cartesian" THEN normalize(o.range, x)
    ELSE convert_longitude_to_spherical_mercator(x)

to_ny(o, y) ==
    IF o.coordinate_system = "Cartesian" THEN normalize(o.range, y)
    ELSE convert_latitude_to_spherical_mercator(y)

(***************************************************************************)
(* Configurations and inputs.                                              *)
(***************************************************************************)
DefaultRange == [min_x |-> 0, min_y |-> 0, max_x |-> 1, max_y |-> 1]

\* radius is a fraction <<numerator, denominator>> of pixels
DefaultOptions ==
    [min_zoom |-> 0, max_zoom |-> 1, min_points |-> 2, radius |-> <<40, 1>>,
     extent |-> 512, coordinate_system |-> "LatLng", range |-> DefaultRange]

OptionSet ==
    { DefaultOptions,
      [DefaultOptions EXCEPT !.min_zoom = 1, !.max_zoom = 2, !.min_points = 3],
      [DefaultOptions EXCEPT !.radius = <<81, 2>>],
      [DefaultOptions EXCEPT !.coordinate_system = "Cartesian",
                             !.range = [min_x |-> 0, min_y |-> 0, max_x |-> 2, max_y |-> 2]] }

\* Longitudes and latitudes at and beyond the ends of their ranges
WideOptions == [DefaultOptions EXCEPT !.max_zoom = 2]

\* The options of examples/cartesian_coordinates.rs, with a max_zoom of 2
ExampleOptions ==
    [DefaultOptions EXCEPT !.max_zoom = 2,
                           !.coordinate_system = "Cartesian",
                           !.range = [min_x |-> 0, min_y |-> 0, max_x |-> 2, max_y |-> 2]]

AllOptions == OptionSet \cup {WideOptions, ExampleOptions}

\* The options SuperclusterBuilder::max_zoom(max_zoom) builds, clustering on
\* the two highest zooms
ZoomOptions(max_zoom) ==
    [DefaultOptions EXCEPT !.min_zoom = max_zoom - 1, !.max_zoom = max_zoom]

\* Inputs in which features without a Point geometry stand among the points
SkipOptions == [DefaultOptions EXCEPT !.extent = 256]

\* A feature: its geometry ("Point", or "None" for a missing or non-Point
\* geometry), its coordinates in caller units, and whether it has properties.
Feat(g, x, y, p) == [geometry |-> g, x |-> x, y |-> y, properties |-> p]

LatLngFeatures ==
    { Feat("Point", -HalfTurn, 0, TRUE),
      Feat("Point", -HalfTurn + 64, 0, TRUE),
      Feat("Point", -HalfTurn + 160, 0, TRUE),
      Feat("Point", HalfTurn, 0, FALSE) }

MinPointsFeatures ==
    { Feat("Point", -HalfTurn, 0, TRUE),
      Feat("Point", -HalfTurn + 64, 0, FALSE),
      Feat("None", 0, 0, TRUE) }

HalfPixelFeatures ==
    { Feat("Point", -81, 0, TRUE),
      Feat("Point", HalfTurn - 162, 0, TRUE),
      Feat("Point", HalfTurn - 160, 0, TRUE) }

CartesianFeatures ==
    { Feat("Point", 0, 0, TRUE),
      Feat("Point", 1, 1, TRUE),
      Feat("Point", 2, 2, FALSE) }

\* lng 270, lng 180 - 1.40625 and 180 + 1.40625, and lat 90
WideFeatures ==
    { Feat("Point", HalfTurn + 512, 0, TRUE),
      Feat("Point", HalfTurn - 8, 0, TRUE),
      Feat("Point", HalfTurn + 8, 0, TRUE),
      Feat("Point", 0, QuarterTurn, TRUE) }

\* The three points of examples/cartesian_coordinates.rs
ExampleFeatures ==
    { Feat("Point", 0, 0, TRUE),
      Feat("Point", 1, 1, TRUE),
      Feat("Point", 2, 2, TRUE) }

\* A feature without a Point geometry, and points 2.8125 and 45 degrees
\* east of lng 0
SkipFeatures ==
    { Feat("None", 0, 0, TRUE),
      Feat("Point", 0, 0, TRUE),
      Feat("Point", 16, 0, FALSE),
      Feat("Point", 256, 0, TRUE) }

Universe(o) ==
    IF o = ExampleOptions THEN ExampleFeatures
    ELSE IF o = SkipOptions THEN SkipFeatures
    ELSE IF o = WideOptions THEN WideFeatures
    ELSE IF o.coordinate_system = "Cartesian" THEN CartesianFeatures
    ELSE IF o.radius[2] # 1 THEN HalfPixelFeatures
    ELSE IF o.min_points > 2 THEN MinPointsFeatures
    ELSE LatLngFeatures

RECURSIVE SeqsUpTo(_, _)
SeqsUpTo(S, n) ==
    IF n = 0 THEN {<<>>}
    ELSE LET shorter == SeqsUpTo(S, n - 1)
         IN shorter \cup {Append(s, f) : s \in {t \in shorter : Len(t) = n - 1}, f \in S}

Inputs(o) == SeqsUpTo(Universe(o), MaxPoints)

(***************************************************************************)
(* KDBush (src/src/kdbush.rs is not part of the sources at hand; modelled  *)
(* from its contract: range is inclusive on all four bounds, within is the *)
(* closed disk; row indices are returned in ascending order).              *)
(***************************************************************************)
InRange(row, min_x, min_y, max_x, max_y) ==
    /\ row.x >= min_x
    /\ row.x <= max_x
    /\ row.y >= min_y
    /\ row.y <= max_y

RECURSIVE RangeFrom(_, _, _, _, _, _)
RangeFrom(data, k, min_x, min_y, max_x, max_y) ==
    IF k > Len(data) THEN <<>>
    ELSE (IF InRange(data[k], min_x, min_y, max_x, max_y) THEN <<k>> ELSE <<>>)
         \o RangeFrom(data, k + 1, min_x, min_y, max_x, max_y)

\* KDBush::range
Range(data, min_x, min_y, max_x, max_y) == RangeFrom(data, 1, min_x, min_y, max_x, max_y)

\* (x - qx)^2 + (y - qy)^2 <= r^2
InDisk(row, qx, qy, r) ==
    LET dx == Abs(row.x - qx)
        dy == Abs(row.y - qy)
    IN /\ dx <= r
       /\ dy <= r
       /\ dx * dx + dy * dy <= r * r

RECURSIVE WithinFrom(_, _, _, _, _)
WithinFrom(data, k, qx, qy, r) ==
    IF k > Len(data) THEN <<>>
    ELSE (IF InDisk(data[k], qx, qy, r) THEN <<k>> ELSE <<>>)
         \o WithinFrom(data, k + 1, qx, qy, r)

\* KDBush::within
Within(data, qx, qy, r) == WithinFrom(data, 1, qx, qy, r)

(***************************************************************************)
(* The point store: one row per point or cluster.  Row indices are 1-based *)
(* here; the index the code uses is one less.                              *)
(***************************************************************************)
Row(x, y, zoom, id, parent, num) ==
    [x |-> x, y |-> y, zoom |-> zoom, id |-> id, parent |-> parent, num |-> num]

\* 2^e as the divisor of a quantity n (e >= -1, 0 <= n < 2^31): n / 2^e,
\* which is below one grid unit from e = 31 on
DivPow2(n, e) ==
    IF e >= 31 THEN 0
    ELSE IF e >= 0 THEN n \div (2 ^ e)
    ELSE n * (2 ^ (-e))

\* radius / (extent * 2^e), in grid units
RadiusAt(o, e) == DivPow2((o.radius[1] * Grid) \div (o.radius[2] * o.extent), e)

\* InitialRows that numbers the rows as they are pushed: the index of a row
\* is the number of points before its feature
RECURSIVE InitialRowsNumbered(_, _, _)
InitialRowsNumbered(o, pts, i) ==
    IF i > Len(pts) THEN <<>>
    ELSE (IF pts[i].geometry = "Point"
            THEN <<Row(to_nx(o, pts[i].x), to_ny(o, pts[i].y), INFINITY,
                       Cardinality({j \in 1 .. i - 1 : pts[j].geometry = "Point"}), -1, 1)>>
            ELSE <<>>)
         \o InitialRowsNumbered(o, pts, i + 1)

\* The rows load builds from the input (lines 153-191): features without a
\* Point geometry are skipped, the index i counts every feature.
RECURSIVE InitialRows(_, _, _)
InitialRows(o, pts, i) ==
    IF i > Len(pts) THEN <<>>
    ELSE (IF pts[i].geometry = "Point"
            THEN <<Row(to_nx(o, pts[i].x), to_ny(o, pts[i].y), INFINITY, i - 1, -1, 1)>>
            ELSE <<>>)
         \o InitialRows(o, pts, i + 1)

\* SumUnprocessed without the filter on zoomProcessed (line 748)
RECURSIVE SumAllNeighbors(_, _, _, _)
SumAllNeighbors(data, ids, j, zoom) ==
    IF j > Len(ids) THEN 0
    ELSE data[ids[j]].num + SumAllNeighbors(data, ids, j + 1, zoom)

\* Sum of the weights of the rows of ids that are not yet processed at zoom
\* (lines 744-751)
RECURSIVE SumUnprocessed(_, _, _, _)
SumUnprocessed(data, ids, j, zoom) ==
    IF j > Len(ids) THEN 0
    ELSE (IF data[ids[j]].zoom > zoom THEN data[ids[j]].num ELSE 0)
         + SumUnprocessed(data, ids, j + 1, zoom)

\* MergeNeighbors without the write of the parent id (line 773)
RECURSIVE MergeWithoutParent(_, _, _, _, _)
MergeWithoutParent(st, ids, j, zoom, id) ==
    IF j > Len(ids) THEN st
    ELSE LET k == ids[j]
             d == st.data[k]
         IN IF d.zoom <= zoom THEN MergeWithoutParent(st, ids, j + 1, zoom, id)
            ELSE MergeWithoutParent(
                   [data |-> [st.data EXCEPT ![k] = [d EXCEPT !.zoom = zoom]],
                    wx |-> st.wx + d.x * d.num,
                    wy |-> st.wy + d.y * d.num],
                   ids, j + 1, zoom, id)

\* MergeNeighbors that writes the id less one as the parent id (line 773)
RECURSIVE MergeParentAtZoom(_, _, _, _, _)
MergeParentAtZoom(st, ids, j, zoom, id) ==
    IF j > Len(ids) THEN st
    ELSE LET k == ids[j]
             d == st.data[k]
         IN IF d.zoom <= zoom THEN MergeParentAtZoom(st, ids, j + 1, zoom, id)
            ELSE MergeParentAtZoom(
                   [data |-> [st.data EXCEPT ![k] = [d EXCEPT !.zoom = zoom, !.parent = id - 1]],
                    wx |-> st.wx + d.x * d.num,
                    wy |-> st.wy + d.y * d.num],
                   ids, j + 1, zoom, id)

\* MergeNeighbors that accumulates the coordinates without the weights
\* (lines 770-771 without num_points2)
RECURSIVE MergeUnweighted(_, _, _, _, _)
MergeUnweighted(st, ids, j, zoom, id) ==
    IF j > Len(ids) THEN st
    ELSE LET k == ids[j]
             d == st.data[k]
         IN IF d.zoom <= zoom THEN MergeUnweighted(st, ids, j + 1, zoom, id)
            ELSE MergeUnweighted(
                   [data |-> [st.data EXCEPT ![k] = [d EXCEPT !.zoom = zoom, !.parent = id]],
                    wx |-> st.wx + d.x,
                    wy |-> st.wy + d.y],
                   ids, j + 1, zoom, id)

\* The merge loop (lines 761-778): st = [data, wx, wy]
RECURSIVE MergeNeighbors(_, _, _, _, _)
MergeNeighbors(st, ids, j, zoom, id) ==
    IF j > Len(ids) THEN st
    ELSE LET k == ids[j]
             d == st.data[k]
         IN IF d.zoom <= zoom THEN MergeNeighbors(st, ids, j + 1, zoom, id)
            ELSE MergeNeighbors(
                   [data |-> [st.data EXCEPT ![k] = [d EXCEPT !.zoom = zoom, !.parent = id]],
                    wx |-> st.wx + d.x * d.num,
                    wy |-> st.wy + d.y * d.num],
                   ids, j + 1, zoom, id)

\* CarryNeighbors that leaves the carried rows of the tree unstamped (without
\* line 802)
RECURSIVE CarryWithoutStamp(_, _, _, _)
CarryWithoutStamp(st, ids, j, zoom) ==
    IF j > Len(ids) THEN st
    ELSE LET k == ids[j]
             d == st.data[k]
         IN IF d.zoom <= zoom THEN CarryWithoutStamp(st, ids, j + 1, zoom)
            ELSE CarryWithoutStamp(
                   [data |-> st.data, next |-> Append(st.next, [d EXCEPT !.zoom = zoom])],
                   ids, j + 1, zoom)

\* The carry-over loop (lines 795-807): st = [data, next]
RECURSIVE CarryNeighbors(_, _, _, _)
CarryNeighbors(st, ids, j, zoom) ==
    IF j > Len(ids) THEN st
    ELSE LET k == ids[j]
             d == st.data[k]
         IN IF d.zoom <= zoom THEN CarryNeighbors(st, ids, j + 1, zoom)
            ELSE LET stamped == [d EXCEPT !.zoom = zoom]
                 IN CarryNeighbors(
                      [data |-> [st.data EXCEPT ![k] = stamped],
                       next |-> Append(st.next, stamped)],
                      ids, j + 1, zoom)

\* ClusterStep that encodes zoom, not zoom + 1, in the id (line 759)
ClusterStepIdAtZoom(o, n, st, i, zoom) ==
    IF st.data[i].zoom <= zoom THEN st
    ELSE LET data1 == [st.data EXCEPT ![i].zoom = zoom]
             x == data1[i].x
             y == data1[i].y
             neighbor_ids == Within(data1, x, y, RadiusAt(o, zoom))
             num_points_origin == data1[i].num
             num_points == num_points_origin + SumUnprocessed(data1, neighbor_ids, 1, zoom)
         IN IF num_points > num_points_origin /\ num_points >= o.min_points
              THEN LET id == (i - 1) * 32 + zoom + n
                       m == MergeNeighbors([data |-> data1,
                                            wx |-> x * num_points_origin,
                                            wy |-> y * num_points_origin],
                                           neighbor_ids, 1, zoom, id)
                   IN [data |-> [m.data EXCEPT ![i].parent = id],
                       next |-> Append(st.next,
                                       Row(m.wx \div num_points, m.wy \div num_points,
                                           INFINITY, id, -1, num_points))]
              ELSE LET kept == [data |-> data1, next |-> Append(st.next, data1[i])]
                   IN IF num_points > 1
                        THEN CarryNeighbors(kept, neighbor_ids, 1, zoom)
                        ELSE kept

\* ClusterStep without the test on min_points (line 754)
ClusterStepAnyWeight(o, n, st, i, zoom) ==
    IF st.data[i].zoom <= zoom THEN st
    ELSE LET data1 == [st.data EXCEPT ![i].zoom = zoom]
             x == data1[i].x
             y == data1[i].y
             neighbor_ids == Within(data1, x, y, RadiusAt(o, zoom))
             num_points_origin == data1[i].num
             num_points == num_points_origin + SumUnprocessed(data1, neighbor_ids, 1, zoom)
         IN IF num_points > num_points_origin
              THEN LET id == (i - 1) * 32 + (zoom + 1) + n
                       m == MergeNeighbors([data |-> data1,
                                            wx |-> x * num_points_origin,
                                            wy |-> y * num_points_origin],
                                           neighbor_ids, 1, zoom, id)
                   IN [data |-> [m.data EXCEPT ![i].parent = id],
                       next |-> Append(st.next,
                                       Row(m.wx \div num_points, m.wy \div num_points,
                                           INFINITY, id, -1, num_points))]
              ELSE LET kept == [data |-> data1, next |-> Append(st.next, data1[i])]
                   IN IF num_points > 1
                        THEN CarryNeighbors(kept, neighbor_ids, 1, zoom)
                        ELSE kept

\* ClusterStep that carries the neighbours only when the weight of the seed
\* itself is above 1 (line 794 testing num_points_origin)
ClusterStepCarryOfCluster(o, n, st, i, zoom) ==
    IF st.data[i].zoom <= zoom THEN st
    ELSE LET data1 == [st.data EXCEPT ![i].zoom = zoom]
             x == data1[i].x
             y == data1[i].y
             neighbor_ids == Within(data1, x, y, RadiusAt(o, zoom))
             num_points_origin == data1[i].num
             num_points == num_points_origin + SumUnprocessed(data1, neighbor_ids, 1, zoom)
         IN IF num_points > num_points_origin /\ num_points >= o.min_points
              THEN LET id == (i - 1) * 32 + (zoom + 1) + n
                       m == MergeNeighbors([data |-> data1,
                                            wx |-> x * num_points_origin,
                                            wy |-> y * num_points_origin],
                                           neighbor_ids, 1, zoom, id)
                   IN [data |-> [m.data EXCEPT ![i].parent = id],
                       next |-> Append(st.next,
                                       Row(m.wx \div num_points, m.wy \div num_points,
                                           INFINITY, id, -1, num_points))]
              ELSE LET kept == [data |-> data1, next |-> Append(st.next, data1[i])]
                   IN IF num_points_origin > 1
                        THEN CarryNeighbors(kept, neighbor_ids, 1, zoom)
                        ELSE kept

\* One iteration of the loop of cluster over row i (lines 726-810)
ClusterStep(o, n, st, i, zoom) ==
    IF st.data[i].zoom <= zoom THEN st
    ELSE LET data1 == [st.data EXCEPT ![i].zoom = zoom]
             x == data1[i].x
             y == data1[i].y
             neighbor_ids == Within(data1, x, y, RadiusAt(o, zoom))
             num_points_origin == data1[i].num
             num_points == num_points_origin + SumUnprocessed(data1, neighbor_ids, 1, zoom)
         IN IF num_points > num_points_origin /\ num_points >= o.min_points
              THEN LET id == (i - 1) * 32 + (zoom + 1) + n
                       m == MergeNeighbors([data |-> data1,
                                            wx |-> x * num_points_origin,
                                            wy |-> y * num_points_origin],
                                           neighbor_ids, 1, zoom, id)
                   IN [data |-> [m.data EXCEPT ![i].parent = id],
                       next |-> Append(st.next,
                                       Row(m.wx \div num_points, m.wy \div num_points,
                                           INFINITY, id, -1, num_points))]
              ELSE LET kept == [data |-> data1, next |-> Append(st.next, data1[i])]
                   IN IF num_points > 1
                        THEN CarryNeighbors(kept, neighbor_ids, 1, zoom)
                        ELSE kept

RECURSIVE ClusterLoop(_, _, _, _, _)
ClusterLoop(o, n, st, i, zoom) ==
    IF i > Len(st.data) THEN st
    ELSE ClusterLoop(o, n, ClusterStep(o, n, st, i, zoom), i + 1, zoom)

\* Supercluster::cluster: [data |-> the updated rows of the tree, next |-> the
\* rows of the next store]; n is self.points.len()
cluster(o, n, data, zoom) == ClusterLoop(o, n, [data |-> data, next |-> <<>>], 1, zoom)

\* The state of cluster after the iterations over the rows 1 .. i
RECURSIVE ClusterPrefix(_, _, _, _, _)
ClusterPrefix(o, n, data, i, zoom) ==
    IF i = 0 THEN [data |-> data, next |-> <<>>]
    ELSE ClusterStep(o, n, ClusterPrefix(o, n, data, i - 1, zoom), i, zoom)

\* The rows of the tree load hands to cluster at zoom (lines 202-207): the
\* rows of the input at max_zoom, else those cluster returned for zoom + 1
RECURSIVE TreeBefore(_, _, _)
TreeBefore(o, pts, zoom) ==
    IF zoom >= o.max_zoom THEN InitialRows(o, pts, 1)
    ELSE cluster(o, Len(pts), TreeBefore(o, pts, zoom + 1), zoom + 1).next

\* LoadZooms that leaves the tree of zoom + 1 as it was (without lines
\* 209-212)
RECURSIVE LoadZoomsWithoutPrevious(_, _, _, _)
LoadZoomsWithoutPrevious(o, n, t, zoom) ==
    IF zoom < o.min_zoom THEN t
    ELSE LET c == cluster(o, n, t[zoom + 1], zoom)
         IN LoadZoomsWithoutPrevious(o, n, (zoom :> c.next) @@ t, zoom - 1)

\* The loop of load over the zooms max_zoom down to min_zoom (lines 198-216)
RECURSIVE LoadZooms(_, _, _, _)
LoadZooms(o, n, t, zoom) ==
    IF zoom < o.min_zoom THEN t
    ELSE LET c == cluster(o, n, t[zoom + 1], zoom)
         IN LoadZooms(o, n, (zoom :> c.next) @@ ((zoom + 1) :> c.data) @@ t, zoom - 1)

\* LoadTrees that pushes the rows of the input after the rows the tree of
\* max_zoom + 1 already holds
LoadTreesAfterOldRows(o, t, pts) ==
    LoadZooms(o, Len(pts),
              ((o.max_zoom + 1) :>
                 ((IF o.max_zoom + 1 \in DOMAIN t THEN t[o.max_zoom + 1] ELSE <<>>)
                    \o InitialRows(o, pts, 1))) @@ t,
              o.max_zoom)

\* The trees after load(pts) on an instance holding the trees t
LoadTrees(o, t, pts) ==
    LoadZooms(o, Len(pts), ((o.max_zoom + 1) :> InitialRows(o, pts, 1)) @@ t, o.max_zoom)

(***************************************************************************)
(* Queries.  A returned feature is a record: a cluster feature carries the *)
(* properties get_cluster_metadata writes, a point feature is the input    *)
(* feature points[index].                                                  *)
(***************************************************************************)
\* The digits after the decimal point of m / 1000 (0 <= m < 1000) as the
\* Display of f64 writes them: none for a whole number, no trailing zero
FractionDigits(m) ==
    IF m = 0 THEN <<>>
    ELSE IF m % 100 = 0 THEN <<m \div 100>>
    ELSE IF m % 10 = 0 THEN <<m \div 100, (m \div 10) % 10>>
    ELSE <<m \div 100, (m \div 10) % 10, m % 10>>

\* format!("{}{suffix}", v) for the f64 v = m / 1000: the digits before the
\* point, the digits after it, the suffix
FormatThousandths(m, suffix) ==
    [whole |-> m \div 1000, fraction |-> FractionDigits(m % 1000), suffix |-> suffix]

\* The abbreviation get_cluster_metadata writes (lines 898-904):
\* count / 1000.0 from 10000 on, count / 100.0 / 10.0 from 1000 on (nothing
\* is rounded: both are count thousandths in exact arithmetic), else count
abbrev(count) ==
    IF count >= 10000 THEN FormatThousandths(count, "k")
    ELSE IF count >= 1000 THEN FormatThousandths(count, "k")
    ELSE FormatThousandths(count * 1000, "")

\* get_cluster_metadata (lines 896-921) without per-cluster metadata, for the
\* row with the id and the weight count
get_cluster_metadata(id, count) ==
    [cluster |-> TRUE, cluster_id |-> id, point_count |-> count,
     point_count_abbreviated |-> abbrev(count)]

\* get_cluster (lines 855-882): the properties get_cluster_metadata writes
get_cluster(row) == get_cluster_metadata(row.id, row.num)

\* self.points[index].to_owned()
PointFeature(pts, index) ==
    [cluster |-> FALSE, index |-> index, properties |-> pts[index + 1].properties]

\* (cluster_id - self.points.len()) wraps when cluster_id < self.points.len()
\* and overflow checks are off: with a usize of 32 bits the shifted value is
\* 2^27 + floor((cluster_id - n) / 32); with 64 bits it is 2^59 + the same,
\* and every comparison made with it comes out alike.
WrappedShift == 2 ^ 27

\* Supercluster::get_origin_id
get_origin_id(n, cluster_id) ==
    IF cluster_id >= n THEN (cluster_id - n) \div 32
    ELSE WrappedShift + ((cluster_id - n) \div 32)

\* Supercluster::get_origin_zoom
get_origin_zoom(n, cluster_id) == (cluster_id - n) % 32

\* ChildrenOf without the test on the parent id (line 352)
RECURSIVE ChildrenUnfiltered(_, _, _, _, _)
ChildrenUnfiltered(pts, data, ids, j, cluster_id) ==
    IF j > Len(ids) THEN <<>>
    ELSE LET d == data[ids[j]]
         IN (IF d.num > 1 THEN <<get_cluster(d)>> ELSE <<PointFeature(pts, d.id)>>)
            \o ChildrenUnfiltered(pts, data, ids, j + 1, cluster_id)

\* The children loop of get_children (lines 349-366)
RECURSIVE ChildrenOf(_, _, _, _, _)
ChildrenOf(pts, data, ids, j, cluster_id) ==
    IF j > Len(ids) THEN <<>>
    ELSE LET d == data[ids[j]]
         IN (IF d.parent = cluster_id
               THEN (IF d.num > 1 THEN <<get_cluster(d)>> ELSE <<PointFeature(pts, d.id)>>)
               ELSE <<>>)
            \o ChildrenOf(pts, data, ids, j + 1, cluster_id)

Stride == 6

\* get_children that searches within the radius of the decoded zoom, not of
\* the zoom below it (lines 340-341 without the - 1.0)
get_children_within_origin_radius(o, pts, t, cluster_id) ==
    LET origin_id == get_origin_id(Len(pts), cluster_id)
        origin_zoom == get_origin_zoom(Len(pts), cluster_id)
    IN IF origin_zoom \notin DOMAIN t
         THEN [status |-> "TreeNotFound", children |-> <<>>]
         ELSE LET data == t[origin_zoom]
              IN IF origin_id * Stride >= Len(data) * Stride
                   THEN [status |-> "ClusterNotFound", children |-> <<>>]
                   ELSE LET r == RadiusAt(o, origin_zoom)
                            x == data[origin_id + 1].x
                            y == data[origin_id + 1].y
                            ids == Within(data, x, y, r)
                            children == ChildrenOf(pts, data, ids, 1, cluster_id)
                        IN IF children = <<>>
                             THEN [status |-> "ClusterNotFound", children |-> <<>>]
                             ELSE [status |-> "Ok", children |-> children]

\* Supercluster::get_children
get_children(o, pts, t, cluster_id) ==
    LET origin_id == get_origin_id(Len(pts), cluster_id)
        origin_zoom == get_origin_zoom(Len(pts), cluster_id)
    IN IF origin_zoom \notin DOMAIN t
         THEN [status |-> "TreeNotFound", children |-> <<>>]
         ELSE LET data == t[origin_zoom]
              IN IF origin_id * Stride >= Len(data) * Stride
                   THEN [status |-> "ClusterNotFound", children |-> <<>>]
                   ELSE LET r == RadiusAt(o, origin_zoom - 1)
                            x == data[origin_id + 1].x
                            y == data[origin_id + 1].y
                            ids == Within(data, x, y, r)
                            children == ChildrenOf(pts, data, ids, 1, cluster_id)
                        IN IF children = <<>>
                             THEN [status |-> "ClusterNotFound", children |-> <<>>]
                             ELSE [status |-> "Ok", children |-> children]

\* Supercluster::append_leaves: st = [result, skipped].  AppendChildren is
\* its loop over the children, from child j on (lines 532-565).
RECURSIVE append_leaves(_, _, _, _, _, _, _)
RECURSIVE AppendChildren(_, _, _, _, _, _, _, _)
append_leaves(o, pts, t, st, cluster_id, limit, offset) ==
    LET c == get_children(o, pts, t, cluster_id)
    IN IF c.status # "Ok" THEN st
       ELSE AppendChildren(o, pts, t, st, c.children, 1, limit, offset)

AppendChildren(o, pts, t, st, children, j, limit, offset) ==
    IF j > Len(children) THEN st
    ELSE LET child == children[j]
             after ==
               IF child.cluster
                 THEN IF st.skipped + child.point_count <= offset
                        THEN [st EXCEPT !.skipped = st.skipped + child.point_count]
                        ELSE append_leaves(o, pts, t, st, child.cluster_id, limit, offset)
                 ELSE IF st.skipped < offset
                        THEN [st EXCEPT !.skipped = st.skipped + 1]
                        ELSE [st EXCEPT !.result = Append(st.result, child)]
         IN IF Len(after.result) = limit THEN after
            ELSE AppendChildren(o, pts, t, after, children, j + 1, limit, offset)

\* Supercluster::get_leaves
get_leaves(o, pts, t, cluster_id, limit, offset) ==
    append_leaves(o, pts, t, [result |-> <<>>, skipped |-> 0], cluster_id, limit, offset).result

\* ExpansionLoop that increments only when it descends (without line 485)
ExpansionLoopLate(o, pts, t, cluster_id, expansion_zoom) ==
    IF ~(expansion_zoom <= o.max_zoom) THEN expansion_zoom
    ELSE LET c == get_children(o, pts, t, cluster_id)
         IN IF c.status # "Ok" THEN expansion_zoom
            ELSE IF Len(c.children) # 1 THEN expansion_zoom
            ELSE expansion_zoom + 1

\* The loop of get_cluster_expansion_zoom (lines 479-498)
RECURSIVE ExpansionLoop(_, _, _, _, _)
ExpansionLoop(o, pts, t, cluster_id, expansion_zoom) ==
    IF ~(expansion_zoom <= o.max_zoom) THEN expansion_zoom
    ELSE LET c == get_children(o, pts, t, cluster_id)
         IN IF c.status # "Ok" THEN expansion_zoom
            ELSE IF Len(c.children) # 1 THEN expansion_zoom + 1
            ELSE IF ~c.children[1].cluster THEN expansion_zoom + 1
            ELSE ExpansionLoop(o, pts, t, c.children[1].cluster_id, expansion_zoom + 1)

\* get_cluster_expansion_zoom that starts at the decoded zoom (line 477
\* without the - 1)
get_cluster_expansion_zoom_from_origin(o, pts, t, cluster_id) ==
    ExpansionLoop(o, pts, t, cluster_id, get_origin_zoom(Len(pts), cluster_id))

\* Supercluster::get_cluster_expansion_zoom, for an id whose decoded zoom is
\* at least 1
get_cluster_expansion_zoom(o, pts, t, cluster_id) ==
    ExpansionLoop(o, pts, t, cluster_id, get_origin_zoom(Len(pts), cluster_id) - 1)

\* limit_zoom that clamps to [min_zoom, max_zoom]
limit_zoom_to_max(o, zoom) == Min(Max(zoom, o.min_zoom), o.max_zoom)

\* Supercluster::limit_zoom
limit_zoom(o, zoom) == Min(Max(zoom, o.min_zoom), o.max_zoom + 1)

\* Padding of twice radius / extent
PaddingDoubled(o) == (2 * o.radius[1] * Grid) \div (o.radius[2] * o.extent)

\* radius / extent, in grid units
Padding(o) == (o.radius[1] * Grid) \div (o.radius[2] * o.extent)

\* Supercluster::add_tile_features: the features of the rows ids, from the
\* j-th on, for the tile offset x (a tile index, z2 or -1) and y
RECURSIVE add_tile_features(_, _, _, _, _, _, _, _)
add_tile_features(o, pts, data, ids, j, x, y, z2) ==
    IF j > Len(ids) THEN <<>>
    ELSE LET d == data[ids[j]]
             is_cluster == d.num > 1
             p == pts[d.id + 1]
             skip == ~is_cluster /\ (~p.properties \/ p.geometry # "Point")
             cx == IF is_cluster THEN d.x ELSE to_nx(o, p.x)
             cy == IF is_cluster THEN d.y ELSE to_ny(o, p.y)
             feature ==
               [cluster |-> is_cluster,
                id |-> d.id,
                x |-> Round(o.extent * (cx * z2 - x * Grid), Grid),
                y |-> Round(o.extent * (cy * z2 - y * Grid), Grid)]
         IN (IF skip THEN <<>> ELSE <<feature>>)
            \o add_tile_features(o, pts, data, ids, j + 1, x, y, z2)

\* get_tile whose wrap bands are as wide as the padding at every zoom (lines
\* 433-442 without the division of p by z2)
get_tile_with_unscaled_bands(o, pts, t, z, x, y) ==
    LET zoom == limit_zoom(o, z)
    IN IF zoom \notin DOMAIN t
         THEN [status |-> "TreeNotFound", zoom |-> zoom, features |-> <<>>]
         ELSE LET data == t[zoom]
                  z2 == 2 ^ z
                  p == Padding(o)
                  top == (y * Grid - p) \div z2
                  bottom == ((y + 1) * Grid + p) \div z2
                  main == add_tile_features(o, pts, data,
                            Range(data, (x * Grid - p) \div z2, top,
                                  ((x + 1) * Grid + p) \div z2, bottom),
                            1, x, y, z2)
                  east == IF x = 0
                            THEN add_tile_features(o, pts, data,
                                   Range(data, Grid - (p), top, Grid, bottom),
                                   1, z2, y, z2)
                            ELSE <<>>
                  west == IF x = z2 - 1
                            THEN add_tile_features(o, pts, data,
                                   Range(data, 0, top, p, bottom),
                                   1, -1, y, z2)
                            ELSE <<>>
                  features == main \o east \o west
              IN IF features = <<>>
                   THEN [status |-> "TileNotFound", zoom |-> zoom, features |-> <<>>]
                   ELSE [status |-> "Ok", zoom |-> zoom, features |-> features]

\* Supercluster::get_tile
get_tile(o, pts, t, z, x, y) ==
    LET zoom == limit_zoom(o, z)
    IN IF zoom \notin DOMAIN t
         THEN [status |-> "TreeNotFound", zoom |-> zoom, features |-> <<>>]
         ELSE LET data == t[zoom]
                  z2 == 2 ^ z
                  p == Padding(o)
                  top == (y * Grid - p) \div z2
                  bottom == ((y + 1) * Grid + p) \div z2
                  main == add_tile_features(o, pts, data,
                            Range(data, (x * Grid - p) \div z2, top,
                                  ((x + 1) * Grid + p) \div z2, bottom),
                            1, x, y, z2)
                  east == IF x = 0
                            THEN add_tile_features(o, pts, data,
                                   Range(data, Grid - (p \div z2), top, Grid, bottom),
                                   1, z2, y, z2)
                            ELSE <<>>
                  west == IF x = z2 - 1
                            THEN add_tile_features(o, pts, data,
                                   Range(data, 0, top, p \div z2, bottom),
                                   1, -1, y, z2)
                            ELSE <<>>
                  features == main \o east \o west
              IN IF features = <<>>
                   THEN [status |-> "TileNotFound", zoom |-> zoom, features |-> <<>>]
                   ELSE [status |-> "Ok", zoom |-> zoom, features |-> features]

\* The f64 remainder a % b (b > 0): the sign follows a
Rem(a, b) == IF a >= 0 THEN a % b ELSE -((-a) % b)

\* NormalizeLng without the shift before the remainders:
\* (((lng % 360.0) + 360.0) % 360.0) - 180.0
NormalizeLngUnshifted(lng) == Rem(Rem(lng, Turn) + Turn, Turn) - HalfTurn

\* ((((lng + 180.0) % 360.0) + 360.0) % 360.0) - 180.0
NormalizeLng(lng) == Rem(Rem(lng + HalfTurn, Turn) + Turn, Turn) - HalfTurn

\* ClusterFeatures that leaves out the first of the rows
ClusterFeaturesAfterFirst(pts, data, ids, j) ==
    [k \in 1 .. Len(ids) - j |->
       IF data[ids[j + k]].num > 1 THEN get_cluster(data[ids[j + k]])
       ELSE [cluster |-> FALSE, index |-> data[ids[j + k]].id,
             properties |-> pts[data[ids[j + k]].id + 1].properties]]

\* The features of the rows ids, from the j-th on (lines 292-306)
RECURSIVE ClusterFeatures(_, _, _, _)
ClusterFeatures(pts, data, ids, j) ==
    IF j > Len(ids) THEN <<>>
    ELSE LET d == data[ids[j]]
         IN <<IF d.num > 1 THEN get_cluster(d) ELSE PointFeature(pts, d.id)>>
            \o ClusterFeatures(pts, data, ids, j + 1)

\* Supercluster::get_clusters; bbox = <<west, south, east, north>>
RECURSIVE get_clusters(_, _, _, _, _)
get_clusters(o, pts, t, bbox, zoom) ==
    LET tz == limit_zoom(o, zoom)
    IN IF tz \notin DOMAIN t
         THEN [status |-> "TreeNotFound", zoom |-> tz, features |-> <<>>]
         ELSE LET data == t[tz]
              IN IF o.coordinate_system = "Cartesian"
                   THEN [status |-> "Ok", zoom |-> tz,
                         features |->
                           ClusterFeatures(pts, data,
                             Range(data, normalize(o.range, bbox[1]), normalize(o.range, bbox[2]),
                                   normalize(o.range, bbox[3]), normalize(o.range, bbox[4])),
                             1)]
                   ELSE LET min_lng == NormalizeLng(bbox[1])
                            min_lat == Clamp(bbox[2], -QuarterTurn, QuarterTurn)
                            max_lng == IF bbox[3] = HalfTurn THEN HalfTurn
                                       ELSE NormalizeLng(bbox[3])
                            max_lat == Clamp(bbox[4], -QuarterTurn, QuarterTurn)
                            world == bbox[3] - bbox[1] >= Turn
                        IN IF ~world /\ min_lng > max_lng
                             THEN [status |-> "Ok", zoom |-> tz,
                                   features |->
                                     get_clusters(o, pts, t,
                                       <<min_lng, min_lat, HalfTurn, max_lat>>, zoom).features
                                     \o get_clusters(o, pts, t,
                                       <<-HalfTurn, min_lat, max_lng, max_lat>>, zoom).features]
                             ELSE [status |-> "Ok", zoom |-> tz,
                                   features |->
                                     ClusterFeatures(pts, data,
                                       Range(data,
                                         convert_longitude_to_spherical_mercator(
                                           IF world THEN -HalfTurn ELSE min_lng),
                                         convert_latitude_to_spherical_mercator(max_lat),
                                         convert_longitude_to_spherical_mercator(
                                           IF world THEN HalfTurn ELSE max_lng),
                                         convert_latitude_to_spherical_mercator(min_lat)),
                                       1)]

(***************************************************************************)
(* The instance.                                                           *)
(***************************************************************************)
NoResult == [op |-> "new"]

Loaded == DOMAIN trees # {}

\* Supercluster::new
Init ==
    /\ options \in OptionSet
    /\ points = <<>>
    /\ trees = <<>>
    /\ res = NoResult

\* Supercluster::new with any of the configurations
InitAll ==
    /\ options \in AllOptions
    /\ points = <<>>
    /\ trees = <<>>
    /\ res = NoResult

\* Supercluster::new with the configuration of the inputs that hold
\* features without a Point geometry
InitSkip ==
    /\ options = SkipOptions
    /\ points = <<>>
    /\ trees = <<>>
    /\ res = NoResult

\* Supercluster::new with a max_zoom of 30 or 31, both of which the builder
\* accepts
InitZoom ==
    /\ options \in {ZoomOptions(30), ZoomOptions(31)}
    /\ points = <<>>
    /\ trees = <<>>
    /\ res = NoResult

\* Supercluster::load, on a fresh instance
Load ==
    /\ DOMAIN trees = {}
    /\ \E pts \in Inputs(options) :
         /\ points' = pts
         /\ trees' = LoadTrees(options, trees, pts)
         /\ res' = [op |-> "load"]
    /\ UNCHANGED options

\* An assignment to the public field options of a loaded instance, between
\* its first and its second load
SetOptions ==
    /\ res.op = "load"
    /\ \E o \in OptionSet \ {options} :
         /\ options' = o
         /\ res' = [op |-> "set_options"]
    /\ UNCHANGED <<points, trees>>

\* Supercluster::load, on an instance that has been loaded once: the points
\* are replaced, the trees of the zooms min_zoom .. max_zoom + 1 are inserted
\* over the map as it is
Reload ==
    /\ res.op \in {"load", "set_options"}
    /\ \E pts \in Inputs(options) :
         /\ points' = pts
         /\ trees' = LoadTrees(options, trees, pts)
         /\ res' = [op |-> "reload", same_options |-> res.op = "load",
                    same_input |-> pts = points]
    /\ UNCHANGED options

\* The cluster ids a caller may pass: every id load can form, ids that decode
\* to a row or a zoom outside the stores, and the leaf indices below
\* points.len()
QueryIds ==
    LET n == Len(points)
    IN (0 .. n - 1)
       \cup {n + 32 * r + z : r \in 0 .. MaxPoints, z \in 0 .. options.max_zoom + 2}

\* get_children(cluster_id).  The subtraction cluster_id - points.len() of
\* get_origin_id overflows when cluster_id < points.len(): a build with
\* overflow checks panics, a build without them wraps.
GetChildren ==
    /\ \E cluster_id \in QueryIds, overflow_checks \in BOOLEAN :
         res' = IF cluster_id < Len(points) /\ overflow_checks
                  THEN [op |-> "get_children", cluster_id |-> cluster_id,
                        status |-> "panic", children |-> <<>>]
                  ELSE LET c == get_children(options, points, trees, cluster_id)
                       IN [op |-> "get_children", cluster_id |-> cluster_id,
                           status |-> c.status, children |-> c.children]
    /\ UNCHANGED <<options, points, trees>>

\* The ids at or above points.len() whose decoded zoom is at least 1
ClusterQueryIds == {c \in QueryIds : c >= Len(points) /\ get_origin_zoom(Len(points), c) >= 1}

\* get_leaves(cluster_id, limit, offset)
GetLeaves ==
    /\ \E cluster_id \in ClusterQueryIds, limit \in 0 .. MaxLimit, offset \in 0 .. MaxOffset :
         res' = [op |-> "get_leaves", cluster_id |-> cluster_id, limit |-> limit,
                 offset |-> offset,
                 leaves |-> get_leaves(options, points, trees, cluster_id, limit, offset)]
    /\ UNCHANGED <<options, points, trees>>

\* get_cluster_expansion_zoom(cluster_id)
GetClusterExpansionZoom ==
    /\ \E cluster_id \in ClusterQueryIds :
         res' = [op |-> "get_cluster_expansion_zoom", cluster_id |-> cluster_id,
                 zoom |-> get_cluster_expansion_zoom(options, points, trees, cluster_id)]
    /\ UNCHANGED <<options, points, trees>>

\* The tile columns queried at zoom z: the first, the last and the two in
\* the middle of the 2^z
TileColumns(z) == {i \in {0, 2 ^ z \div 2 - 1, 2 ^ z \div 2, 2 ^ z - 1} : 0 <= i /\ i < 2 ^ z}

\* The tile rows queried at zoom z: the first and the one below the middle
TileLines(z) == {i \in {0, 2 ^ z \div 2} : i < 2 ^ z}

\* get_tile(z, x, y)
GetTile ==
    /\ \E z \in 0 .. MaxQueryZoom :
         \E x \in TileColumns(z), y \in TileLines(z) :
           LET tile == get_tile(options, points, trees, z, x, y)
           IN res' = [op |-> "get_tile", z |-> z, x |-> x, y |-> y, status |-> tile.status,
                      zoom |-> tile.zoom, features |-> tile.features]
    /\ UNCHANGED <<options, points, trees>>

\* The bounding boxes queried: <<west, south, east, north>> in caller units
BBoxes(o) ==
    IF o.coordinate_system = "Cartesian"
      THEN {<<0, 0, 2, 2>>, <<0, 0, 1, 1>>, <<1, 1, 2, 2>>, <<2, 0, 0, 2>>}
      ELSE {<<HalfTurn - 200, -57, -HalfTurn + 100, 57>>,
            <<-HalfTurn - 8, -57, -HalfTurn + 100, 57>>,
            <<HalfTurn - 200, -57, HalfTurn + 100, 57>>,
            <<-HalfTurn, -57, -HalfTurn + 100, 57>>,
            <<HalfTurn - 200, -57, HalfTurn, 57>>,
            <<-HalfTurn, -QuarterTurn, HalfTurn, QuarterTurn>>,
            <<HalfTurn + 300, -600, -HalfTurn - 700, 600>>}

\* get_clusters(bbox, zoom)
GetClusters ==
    /\ \E bbox \in BBoxes(options), z \in 0 .. MaxQueryZoom :
         LET c == get_clusters(options, points, trees, bbox, z)
         IN res' = [op |-> "get_clusters", bbox |-> bbox, z |-> z, status |-> c.status,
                    zoom |-> c.zoom, features |-> c.features]
    /\ UNCHANGED <<options, points, trees>>

\* The weights get_cluster_metadata is called with: those of its unit
\* tests (1000 and 10000), weights on both sides of them, and a spread
Counts ==
    {1, 999, 1000, 1200, 1234, 1250, 9949, 9950, 9999, 10000}
      \cup {k * 411 : k \in 1 .. MaxCountSteps}

\* get_cluster_metadata(&data, 0, &[]) on a row with the weight count, as
\* its unit tests call it
GetClusterMetadata ==
    /\ \E count \in Counts :
         res' = [op |-> "get_cluster_metadata", count |-> count,
                 properties |-> get_cluster_metadata(0, count)]
    /\ UNCHANGED <<options, points, trees>>

\* One iteration of the loop of cluster, as load runs it at zoom: the
\* iteration over the row i of the tree of zoom + 1, with the rows and the
\* next store before and after it
ClusterSeed ==
    /\ Loaded
    /\ \E zoom \in options.min_zoom .. options.max_zoom :
         LET data == TreeBefore(options, points, zoom)
         IN \E i \in 1 .. Len(data) :
              res' = [op |-> "cluster", zoom |-> zoom, i |-> i,
                      before |-> ClusterPrefix(options, Len(points), data, i - 1, zoom),
                      after |-> ClusterPrefix(options, Len(points), data, i, zoom)]
    /\ UNCHANGED <<options, points, trees>>

Next ==
    \/ Load
    \/ GetChildren
    \/ GetLeaves
    \/ GetClusterExpansionZoom
    \/ GetTile
    \/ GetClusters
    \/ SetOptions
    \/ Reload
    \/ GetClusterMetadata
    \/ ClusterSeed

Spec == Init /\ [][Next]_vars

\* The queries take &self and leave the instance as it is, so each can be
\* studied beside load alone.
SpecLoad == Init /\ [][Load]_vars

SpecChildren == Init /\ [][Load \/ GetChildren]_vars

SpecLeaves == Init /\ [][Load \/ GetLeaves]_vars

SpecExpansion == Init /\ [][Load \/ GetClusterExpansionZoom]_vars

SpecView == Init /\ [][Load \/ GetTile \/ GetClusters]_vars

\* The same with the configurations whose inputs reach beyond the ranges of
\* the coordinates, and with the example's
SpecStores == InitAll /\ [][Load]_vars

SpecClusters == InitAll /\ [][Load \/ GetClusters]_vars

SpecTile == InitAll /\ [][Load \/ GetTile]_vars

\* The queries that read self.points, on the inputs that hold features
\* without a Point geometry (get_leaves reads them through get_children)
SpecSkip == InitSkip /\ [][Load \/ GetChildren \/ GetClusters \/ GetTile]_vars

\* The clustering pass of every zoom, seed by seed
SpecSeeds == Init /\ [][Load \/ ClusterSeed]_vars

\* The indexes whose max_zoom is 30 or 31
SpecZoom == InitZoom /\ [][Load]_vars

\* get_cluster_metadata is a free function: it needs no loaded index
SpecMetadata == Init /\ [][GetClusterMetadata]_vars

\* Two loads on one instance, the options assigned in between or not
SpecReload == Init /\ [][Load \/ SetOptions \/ Reload]_vars

(***************************************************************************)
(* Properties.                                                             *)
(***************************************************************************)
Zooms == options.min_zoom .. options.max_zoom + 1

\* The indices of the input features that are points
PointIndices == {i \in 0 .. Len(points) - 1 : points[i + 1].geometry = "Point"}

RECURSIVE SumNum(_, _)
SumNum(data, k) == IF k > Len(data) THEN 0 ELSE data[k].num + SumNum(data, k + 1)

\* C1: after load, at every zoom of [min_zoom, max_zoom + 1] the weights of
\* the rows of the store sum to the number of input points (the features that
\* carry a Point geometry).
C1_WeightSum ==
    Loaded => \A z \in Zooms :
                /\ z \in DOMAIN trees
                /\ SumNum(trees[z], 1) = Cardinality(PointIndices)

\* C1 witness: a loaded index in which some store holds a cluster beside
\* another row.
C1_Witness ==
    /\ res.op = "load"
    /\ \E z \in Zooms : \E k \in 1 .. Len(trees[z]) :
         trees[z][k].num > 1 /\ Len(trees[z]) > 1

\* The leaves under a returned feature, by descending get_children
RECURSIVE LeavesOfFeature(_)
LeavesOfFeature(f) ==
    IF ~f.cluster THEN {f.index}
    ELSE LET c == get_children(options, points, trees, f.cluster_id).children
         IN UNION {LeavesOfFeature(c[j]) : j \in 1 .. Len(c)}

\* The leaf set of a store row
LeavesOfRow(row) ==
    IF row.num > 1 THEN LeavesOfFeature(get_cluster(row)) ELSE {row.id}

\* C2: after load, at every zoom the leaf sets of the rows of the store are
\* pairwise disjoint and cover the input points: each input point lies under
\* exactly one row.
C2_LeafPartition ==
    Loaded => \A z \in Zooms :
                /\ \A k \in 1 .. Len(trees[z]) : LeavesOfRow(trees[z][k]) \subseteq PointIndices
                /\ \A i \in PointIndices :
                     Cardinality({k \in 1 .. Len(trees[z]) : i \in LeavesOfRow(trees[z][k])}) = 1

\* C2 witness: a store holding a cluster whose leaves lie two levels down,
\* beside a store with several rows.
C2_Witness ==
    /\ res.op = "load"
    /\ \E z \in Zooms : \E k \in 1 .. Len(trees[z]) :
         /\ trees[z][k].num > 2
         /\ \E j \in 1 .. Len(get_children(options, points, trees, trees[z][k].id).children) :
              get_children(options, points, trees, trees[z][k].id).children[j].cluster
    /\ \E z \in Zooms : Len(trees[z]) > 1

\* The features of the rows of data whose parentId is cluster_id
RowsWithParent(data, cluster_id) == {k \in 1 .. Len(data) : data[k].parent = cluster_id}

FeatureOfRow(row) == IF row.num > 1 THEN get_cluster(row) ELSE PointFeature(points, row.id)

SeqToSet(q) == {q[j] : j \in 1 .. Len(q)}

\* What C3 says get_children answers for an id >= points.len()
ExpectedChildren(cluster_id) ==
    LET d == cluster_id - Len(points)
        z == d % 32
        r == d \div 32
    IN IF z \notin DOMAIN trees THEN [status |-> "TreeNotFound", children |-> {}]
       ELSE IF r >= Len(trees[z]) \/ RowsWithParent(trees[z], cluster_id) = {}
              THEN [status |-> "ClusterNotFound", children |-> {}]
              ELSE [status |-> "Ok",
                    children |-> {FeatureOfRow(trees[z][k]) :
                                    k \in RowsWithParent(trees[z], cluster_id)}]

\* C3: for an id >= points.len(), get_children answers TreeNotFound exactly
\* when the decoded zoom has no tree, else ClusterNotFound exactly when the
\* decoded row is outside the store or no row has that parentId, else exactly
\* the rows of the store whose parentId is the id, each once.
C3_ChildrenExact ==
    (res.op = "get_children" /\ res.cluster_id >= Len(points)) =>
        /\ res.status = ExpectedChildren(res.cluster_id).status
        /\ SeqToSet(res.children) = ExpectedChildren(res.cluster_id).children
        /\ Len(res.children) = Cardinality(ExpectedChildren(res.cluster_id).children)

\* C3 witness: get_children returned the children of a cluster while the
\* store also holds a row that is no child of it.
C3_Witness ==
    /\ res.op = "get_children"
    /\ res.status = "Ok"
    /\ Len(res.children) >= 2
    /\ LET z == (res.cluster_id - Len(points)) % 32
       IN \E k \in 1 .. Len(trees[z]) : trees[z][k].parent # res.cluster_id

\* C7: get_children of a value below points.len() returns ClusterNotFound
\* (no rows, no abort).
C7_LeafIdClusterNotFound ==
    (res.op = "get_children" /\ Len(points) >= 1 /\ res.cluster_id < Len(points)) =>
        res.status = "ClusterNotFound"

\* The ids of the clusters load formed
FormedIds ==
    {c \in ClusterQueryIds :
       \E z \in DOMAIN trees : \E k \in 1 .. Len(trees[z]) :
         trees[z][k].num > 1 /\ trees[z][k].id = c}

\* The depth-first leaf sequence under a returned feature
RECURSIVE LeafSeq(_)
RECURSIVE LeafSeqOfChildren(_, _)
LeafSeq(f) ==
    IF ~f.cluster THEN <<f>>
    ELSE LeafSeqOfChildren(get_children(options, points, trees, f.cluster_id).children, 1)
LeafSeqOfChildren(c, j) ==
    IF j > Len(c) THEN <<>> ELSE LeafSeq(c[j]) \o LeafSeqOfChildren(c, j + 1)

\* The depth-first leaf sequence of the cluster with the id c
LeafSeqOfId(c) == LeafSeqOfChildren(get_children(options, points, trees, c).children, 1)

\* The elements of q at the positions offset .. offset + limit - 1 (0-based)
Page(q, offset, limit) == SubSeq(q, offset + 1, Min(Len(q), offset + limit))

\* C4: for every cluster id formed by load, every limit >= 0 and offset >= 0,
\* get_leaves returns exactly the leaves at the positions offset ..
\* offset + limit - 1 of the depth-first leaf sequence of the cluster: never
\* more than limit leaves, never one of the first offset leaves.
C4_LeavesPage ==
    (res.op = "get_leaves" /\ res.cluster_id \in FormedIds) =>
        /\ res.leaves = Page(LeafSeqOfId(res.cluster_id), res.offset, res.limit)
        /\ Len(res.leaves) <= res.limit

\* The same page property for the limits of at least 1
LeavesPagePositiveLimit ==
    (res.op = "get_leaves" /\ res.cluster_id \in FormedIds /\ res.limit >= 1) =>
        res.leaves = Page(LeafSeqOfId(res.cluster_id), res.offset, res.limit)

\* The leaf indices under the cluster with the id c
LeavesOfId(c) == {f.index : f \in SeqToSet(LeafSeqOfId(c))}

\* The zoom C5 describes: start at zoom - 1 below, increment while the
\* current cluster has exactly one child row and that row is a cluster
RECURSIVE ExpansionRef(_, _)
ExpansionRef(c, zoom) ==
    IF zoom > options.max_zoom THEN zoom
    ELSE LET z == get_origin_zoom(Len(points), c)
             kids == IF z \in DOMAIN trees THEN RowsWithParent(trees[z], c) ELSE {}
         IN IF Cardinality(kids) = 1 /\ (\A k \in kids : trees[z][k].num > 1)
              THEN ExpansionRef((CHOOSE k \in kids : TRUE).id, zoom + 1)
              ELSE zoom + 1

\* C5: for every cluster id formed by load, get_cluster_expansion_zoom
\* returns the zoom reached from origin_zoom - 1 by incrementing while the
\* current cluster has a single child that is a cluster and the zoom is at
\* most max_zoom; that zoom lies in [origin_zoom, max_zoom + 1] and its store
\* holds several rows lying under the cluster.
C5_ExpansionZoom ==
    (res.op = "get_cluster_expansion_zoom" /\ res.cluster_id \in FormedIds) =>
        LET origin == get_origin_zoom(Len(points), res.cluster_id)
        IN /\ res.zoom = ExpansionRef(res.cluster_id, origin - 1)
           /\ origin <= res.zoom /\ res.zoom <= options.max_zoom + 1
           /\ res.zoom \in DOMAIN trees
           /\ Cardinality({k \in 1 .. Len(trees[res.zoom]) :
                             LeavesOfRow(trees[res.zoom][k]) \subseteq LeavesOfId(res.cluster_id)})
                >= 2

\* C5 witness: the expansion zoom of a cluster formed from another cluster
\* was asked for.
C5_Witness ==
    /\ res.op = "get_cluster_expansion_zoom"
    /\ res.cluster_id \in FormedIds
    /\ \E f \in SeqToSet(get_children(options, points, trees, res.cluster_id).children) :
         f.cluster
    /\ res.zoom <= options.max_zoom

\* C6: after load, for every requested zoom, get_clusters and get_tile read
\* the tree at clamp(z, min_zoom, max_zoom + 1), which exists, and never
\* answer TreeNotFound.
C6_TreeAtClampedZoom ==
    (Loaded /\ res.op \in {"get_clusters", "get_tile"}) =>
        /\ res.zoom = Clamp(res.z, options.min_zoom, options.max_zoom + 1)
        /\ res.zoom \in DOMAIN trees
        /\ res.status # "TreeNotFound"

\* C6 witness: a view was asked at a zoom above max_zoom + 1 of a loaded
\* index holding points.
C6_Witness ==
    /\ Loaded
    /\ res.op \in {"get_clusters", "get_tile"}
    /\ res.z > options.max_zoom + 1
    /\ res.status = "Ok"

\* C6 witness below the range: a tile was asked at a zoom below min_zoom.
C6_WitnessBelow ==
    /\ Loaded
    /\ res.op = "get_tile"
    /\ res.z < options.min_zoom
    /\ res.status = "Ok"

\* The rows of the store at the effective zoom that lie in the padded
\* rectangle of the tile (band "main"), in the band at the east edge of the
\* world (asked when x = 0) or in the band at its west edge (asked when
\* x = 2^z - 1); coordinates are compared after scaling by 2^z
TileBandRows(band) ==
    LET data == trees[res.zoom]
        z2 == 2 ^ res.z
        p == (options.radius[1] * Grid) \div (options.radius[2] * options.extent)
        inY(r) == r.y * z2 >= res.y * Grid - p /\ r.y * z2 <= (res.y + 1) * Grid + p
    IN {k \in 1 .. Len(data) :
          /\ inY(data[k])
          /\ CASE band = "main" -> /\ data[k].x * z2 >= res.x * Grid - p
                                   /\ data[k].x * z2 <= (res.x + 1) * Grid + p
               [] band = "east" -> res.x = 0 /\ data[k].x * z2 >= Grid * z2 - p
               [] band = "west" -> res.x = z2 - 1 /\ data[k].x * z2 <= p}

TileRows == TileBandRows("main") \cup TileBandRows("east") \cup TileBandRows("west")

\* C8: get_tile answers TileNotFound exactly when no row of the store at the
\* effective zoom lies in the padded rectangle of the tile or in an
\* applicable wrap band; when a row lies there it answers Ok with a
\* non-empty list of features.
C8_TileNotFoundExact ==
    (Loaded /\ res.op = "get_tile") =>
        /\ res.status = "TileNotFound" <=> TileRows = {}
        /\ TileRows # {} => (res.status = "Ok" /\ res.features # <<>>)

\* The same for the indexes whose input points all carry properties
TileNotFoundWithProperties ==
    (Loaded /\ res.op = "get_tile" /\ \A i \in PointIndices : points[i + 1].properties) =>
        /\ res.status = "TileNotFound" <=> TileRows = {}
        /\ TileRows # {} => (res.status = "Ok" /\ res.features # <<>>)

\* The tile coordinates of a row for the offset xo of its band
TileX(row, xo) == Round(options.extent * (row.x * (2 ^ res.z) - xo * Grid), Grid)

TileY(row) == Round(options.extent * (row.y * (2 ^ res.z) - res.y * Grid), Grid)

\* Every returned feature is a row of a band, at the coordinates of that band
FeaturesFromRows ==
    \A f \in SeqToSet(res.features) :
      \E band \in {"main", "east", "west"} : \E k \in TileBandRows(band) :
        LET row == trees[res.zoom][k]
            xo == CASE band = "main" -> res.x
                    [] band = "east" -> 2 ^ res.z
                    [] band = "west" -> -1
        IN /\ f.cluster = (row.num > 1)
           /\ f.id = row.id
           /\ f.x = TileX(row, xo)
           /\ f.y = TileY(row)

\* C9 as stated: every feature of a tile has the coordinates
\* round(extent * (nx * 2^z - x')), round(extent * (ny * 2^z - y)) of its row,
\* and both lie in [-radius, extent + radius].
C9_CoordinatesInPaddedTile ==
    (Loaded /\ res.op = "get_tile" /\ res.status = "Ok") =>
        /\ FeaturesFromRows
        /\ \A f \in SeqToSet(res.features) :
             LET rn == options.radius[1]
                 rd == options.radius[2]
             IN /\ f.x * rd >= -rn /\ f.x * rd <= options.extent * rd + rn
                /\ f.y * rd >= -rn /\ f.y * rd <= options.extent * rd + rn

\* C9 (amended): every feature of a tile has the coordinates
\* round(extent * (nx * 2^z - x')), round(extent * (ny * 2^z - y)) of its row,
\* and both lie in [round(-radius), round(extent + radius)]: the padded tile
\* with its bounds rounded as the coordinates are.
C9_CoordinatesInRoundedPaddedTile ==
    (Loaded /\ res.op = "get_tile" /\ res.status = "Ok") =>
        /\ FeaturesFromRows
        /\ \A f \in SeqToSet(res.features) :
             LET rn == options.radius[1]
                 rd == options.radius[2]
                 lo == Round(-rn, rd)
                 hi == Round(options.extent * rd + rn, rd)
             IN /\ lo <= f.x /\ f.x <= hi
                /\ lo <= f.y /\ f.y <= hi

\* C9 witness: a tile returned a feature from a wrap band and one lying on
\* the rounded bound of the padding.
C9_Witness ==
    /\ Loaded
    /\ res.op = "get_tile"
    /\ res.status = "Ok"
    /\ \E f \in SeqToSet(res.features) : f.x = Round(-options.radius[1], options.radius[2])
    /\ \E k \in TileBandRows("east") :
         \E f \in SeqToSet(res.features) :
           f.id = trees[res.zoom][k].id /\ f.x = TileX(trees[res.zoom][k], 2 ^ res.z)

\* The longitude l brought into [-180, 180)
WrapLng(l) == ((l + HalfTurn) % Turn) - HalfTurn

\* The east longitude as get_clusters reads it: 180 stays 180
WrapEast(l) == IF l = HalfTurn THEN HalfTurn ELSE WrapLng(l)

\* The bbox of the last get_clusters crosses the antimeridian
Crossing ==
    /\ options.coordinate_system = "LatLng"
    /\ res.op = "get_clusters"
    /\ WrapLng(res.bbox[1]) > WrapEast(res.bbox[3])
    /\ res.bbox[3] - res.bbox[1] < Turn

ClusterCount(bbox, z) == Len(get_clusters(options, points, trees, bbox, z).features)

RowLngIn(row, lo, hi) ==
    /\ row.x * Turn >= lo * Grid + Grid * HalfTurn
    /\ row.x * Turn <= hi * Grid + Grid * HalfTurn

\* The latitude of a row lies in [s, n], both brought into [-90, 90]
RowLatIn(row, s, n) ==
    /\ row.y >= convert_latitude_to_spherical_mercator(Clamp(n, -QuarterTurn, QuarterTurn))
    /\ row.y <= convert_latitude_to_spherical_mercator(Clamp(s, -QuarterTurn, QuarterTurn))

\* The rows of the store at the effective zoom of the last query that a bbox
\* crossing the antimeridian holds: longitude in [w', 180] or [-180, e']
CrossingRows(bbox) ==
    {k \in 1 .. Len(trees[res.zoom]) :
       /\ RowLatIn(trees[res.zoom][k], bbox[2], bbox[4])
       /\ \/ RowLngIn(trees[res.zoom][k], WrapLng(bbox[1]), HalfTurn)
          \/ RowLngIn(trees[res.zoom][k], -HalfTurn, WrapEast(bbox[3]))}

\* The rows a bbox with normalized longitudes w <= e holds
PlainRows(bbox) ==
    {k \in 1 .. Len(trees[res.zoom]) :
       /\ RowLatIn(trees[res.zoom][k], bbox[2], bbox[4])
       /\ RowLngIn(trees[res.zoom][k], bbox[1], bbox[3])}

\* The queried bboxes that do not cross and whose longitudes are normalized
PlainBBoxes ==
    {b \in BBoxes(options) :
       /\ -HalfTurn <= b[1] /\ b[1] <= b[3] /\ b[3] <= HalfTurn
       /\ b[3] - b[1] < Turn}

\* C11: in LatLng mode, for a bbox that crosses the antimeridian once its
\* longitudes are normalized (given normalized or not), get_clusters returns
\* exactly the rows of the effective zoom whose longitude lies in [w', 180]
\* or [-180, e'] and whose latitude lies in [s, n], each once; so it returns
\* as many results as any non-crossing bbox holding the same rows.
C11_CrossingRowsExact ==
    (Loaded /\ Crossing) =>
        /\ res.status = "Ok"
        /\ SeqToSet(res.features)
             = {FeatureOfRow(trees[res.zoom][k]) : k \in CrossingRows(res.bbox)}
        /\ Len(res.features) = Cardinality(CrossingRows(res.bbox))
        /\ \A b \in PlainBBoxes :
             PlainRows(b) = CrossingRows(res.bbox) => ClusterCount(b, res.z) = Len(res.features)

\* C11 witness: a crossing bbox given with an east longitude above 180
\* returned several rows, and a non-crossing bbox holds the same rows.
C11_Witness ==
    /\ Loaded
    /\ Crossing
    /\ res.bbox[3] > HalfTurn
    /\ Len(res.features) >= 2
    /\ Len(res.features) < Len(trees[res.zoom])
    /\ \E b \in PlainBBoxes : PlainRows(b) = CrossingRows(res.bbox)

\* The last query is a get_clusters in LatLng mode over a bbox at least 360
\* wide whose latitudes cover [-90, 90]
WorldQuery ==
    /\ options.coordinate_system = "LatLng"
    /\ res.op = "get_clusters"
    /\ res.bbox[3] - res.bbox[1] >= Turn
    /\ res.bbox[2] <= -QuarterTurn
    /\ res.bbox[4] >= QuarterTurn

\* Every row of the store at the effective zoom was returned, each once
EveryRowOnce ==
    /\ Len(res.features) = Len(trees[res.zoom])
    /\ SeqToSet(res.features)
         = {FeatureOfRow(trees[res.zoom][k]) : k \in 1 .. Len(trees[res.zoom])}

\* C12: in LatLng mode, for a bbox with e - w >= 360 and latitudes covering
\* [-90, 90], get_clusters returns every row of the store at limit_zoom(z)
\* exactly once, whatever the longitudes of the input points.
C12_WorldReturnsEveryRow ==
    (Loaded /\ WorldQuery) => (res.zoom = limit_zoom(options, res.z) /\ EveryRowOnce)

\* The same for the inputs whose longitudes all lie in [-180, 180]
WorldReturnsEveryRowInRange ==
    (Loaded /\ WorldQuery
       /\ \A i \in PointIndices : -HalfTurn <= points[i + 1].x /\ points[i + 1].x <= HalfTurn)
      => EveryRowOnce

\* The bbox of the whole world: [-180, -90, 180, 90], or the range of the
\* Cartesian coordinates
WorldBBox ==
    IF options.coordinate_system = "Cartesian"
      THEN <<options.range.min_x, options.range.min_y, options.range.max_x, options.range.max_y>>
      ELSE <<-HalfTurn, -QuarterTurn, HalfTurn, QuarterTurn>>

RowCount(data, r) == Cardinality({k \in 1 .. Len(data) : data[k] = r})

\* Two stores hold the same rows, in any order
SameRows(a, b) ==
    /\ Len(a) = Len(b)
    /\ \A k \in 1 .. Len(a) : RowCount(a, a[k]) = RowCount(b, a[k])

\* C14: a second load of the same input on an instance whose options are
\* those of its first load leaves, at every zoom, a store with the rows of
\* the store of the first load.
C14_ReloadSameInput ==
    [][(res.op = "load" /\ res'.op = "reload" /\ points' = points) =>
         \A z \in Zooms : /\ z \in DOMAIN trees'
                          /\ SameRows(trees'[z], trees[z])]_vars

\* C14 witness: the input that formed a cluster was loaded a second time
\* under the same options.
C14_Witness ==
    /\ res.op = "reload"
    /\ res.same_options
    /\ res.same_input
    /\ \E z \in Zooms : \E k \in 1 .. Len(trees[z]) : trees[z][k].num > 1

\* The trees of a fresh instance with the current options loaded with the
\* current points
FreshTrees == LoadTrees(options, <<>>, points)

\* The instance answers as the fresh one: it holds the same trees, and
\* get_children answers alike for every id at or above points.len()
AnswersAsFresh ==
    /\ trees = FreshTrees
    /\ \A c \in QueryIds :
         c >= Len(points) =>
           get_children(options, points, trees, c) = get_children(options, points, FreshTrees, c)

\* C15: after a second load, whatever the options in force at each of the
\* two loads, every tree of the instance was built from the second input and
\* every query answers as on a fresh instance with the current options
\* loaded with that input.
C15_ReloadReplacesAll == (res.op = "reload") => AnswersAsFresh

\* The same for a second load under the options of the first
ReloadReplacesAllSameOptions == (res.op = "reload" /\ res.same_options) => AnswersAsFresh

\* The zoom and the row index an id decodes to
DecodedZoom(c) == (c - Len(points)) % 32

DecodedRow(c) == (c - Len(points)) \div 32

\* C16 as stated: for every cluster row with id c in the store at zoom z,
\* the zoom decoded from c is z and the row index decoded from c is smaller
\* than the row count of the store at z.
C16_DecodedZoomIsStoreZoom ==
    Loaded => \A z \in Zooms : \A k \in 1 .. Len(trees[z]) :
                trees[z][k].num > 1 =>
                  /\ DecodedZoom(trees[z][k].id) = z
                  /\ DecodedRow(trees[z][k].id) < Len(trees[z])

\* C16 (amended): for every cluster row with id c in the store at zoom z,
\* the zoom decoded from c is greater than z and at most max_zoom + 1 (the
\* zoom of the store the cluster was formed from), and the row index decoded
\* from c is smaller than the row count of the store at the decoded zoom.
C16_DecodedZoomIsOriginStore ==
    Loaded => \A z \in Zooms : \A k \in 1 .. Len(trees[z]) :
                trees[z][k].num > 1 =>
                  /\ DecodedZoom(trees[z][k].id) > z
                  /\ DecodedZoom(trees[z][k].id) <= options.max_zoom + 1
                  /\ DecodedRow(trees[z][k].id) < Len(trees[DecodedZoom(trees[z][k].id)])

\* C16 witness: a store holds a cluster formed two zooms above it, and some
\* cluster was formed from a row that is not the first of its store.
C16_Witness ==
    /\ res.op = "load"
    /\ \E z \in Zooms : \E k \in 1 .. Len(trees[z]) :
         trees[z][k].num > 1 /\ DecodedZoom(trees[z][k].id) = z + 2
    /\ \E z \in Zooms : \E k \in 1 .. Len(trees[z]) :
         trees[z][k].num > 1 /\ DecodedRow(trees[z][k].id) >= 1

\* The cluster rows of the store at zoom z that carry the id c
ClusterRowsWithId(z, c) ==
    IF z \in DOMAIN trees
      THEN {k \in 1 .. Len(trees[z]) : trees[z][k].num > 1 /\ trees[z][k].id = c}
      ELSE {}

\* C17 as stated: for every row of the store at zoom z, parentId is -1 or
\* the id of a cluster row of the store at zoom z - 1 whose decoded zoom is
\* z - 1.
C17_ParentDecodesToZoomBelow ==
    Loaded => \A z \in Zooms : \A k \in 1 .. Len(trees[z]) :
                \/ trees[z][k].parent = -1
                \/ /\ ClusterRowsWithId(z - 1, trees[z][k].parent) # {}
                   /\ DecodedZoom(trees[z][k].parent) = z - 1

\* C17 (amended): for every row of the store at zoom z, parentId is -1 or
\* the id of a cluster row of the store at zoom z - 1 whose decoded zoom is z.
C17_ParentDecodesToOwnZoom ==
    Loaded => \A z \in Zooms : \A k \in 1 .. Len(trees[z]) :
                \/ trees[z][k].parent = -1
                \/ /\ ClusterRowsWithId(z - 1, trees[z][k].parent) # {}
                   /\ DecodedZoom(trees[z][k].parent) = z

\* C17 witness: some cluster row has a parent, and a store above min_zoom
\* holds a row with a parent beside a row without one.
C17_Witness ==
    /\ res.op = "load"
    /\ \E z \in Zooms : \E k \in 1 .. Len(trees[z]) :
         trees[z][k].num > 1 /\ trees[z][k].parent # -1
    /\ \E z \in Zooms :
         /\ z > options.min_zoom
         /\ \E k \in 1 .. Len(trees[z]) : trees[z][k].parent # -1
         /\ \E k \in 1 .. Len(trees[z]) : trees[z][k].parent = -1

\* C18 as stated: for every zoom z of [min_zoom, max_zoom + 1] and every row
\* of the store at z, zoomProcessed <= z.
C18_ZoomProcessedAtMostZoom ==
    Loaded => \A z \in Zooms : \A k \in 1 .. Len(trees[z]) : trees[z][k].zoom <= z

\* C18 (amended): for every zoom z of [min_zoom + 1, max_zoom + 1] and every
\* row of the store at z, zoomProcessed <= z (it is z - 1); in the store at
\* min_zoom, zoomProcessed is min_zoom for the rows carried from the store
\* above and infinite for the cluster rows formed at min_zoom.
C18_ZoomProcessedAboveMinZoom ==
    Loaded => \A z \in Zooms : \A k \in 1 .. Len(trees[z]) :
                IF z > options.min_zoom
                  THEN trees[z][k].zoom <= z /\ trees[z][k].zoom = z - 1
                  ELSE IF trees[z][k].num > 1 /\ DecodedZoom(trees[z][k].id) = z + 1
                         THEN trees[z][k].zoom = INFINITY
                         ELSE trees[z][k].zoom = z

\* C18 witness: the store at min_zoom holds a cluster formed at min_zoom
\* beside a carried row, and a store above holds several rows.
C18_Witness ==
    /\ res.op = "load"
    /\ \E k \in 1 .. Len(trees[options.min_zoom]) :
         trees[options.min_zoom][k].zoom = INFINITY
    /\ \E k \in 1 .. Len(trees[options.min_zoom]) :
         trees[options.min_zoom][k].zoom = options.min_zoom
    /\ Len(trees[options.min_zoom + 1]) > 1

\* C19: after load of any input, every row of every store has nx and ny in
\* [0, 1]: values out of range are clamped and no input is rejected.
C19_RowsInUnitSquare ==
    Loaded => \A z \in Zooms : \A k \in 1 .. Len(trees[z]) :
                /\ 0 <= trees[z][k].x /\ trees[z][k].x <= Grid
                /\ 0 <= trees[z][k].y /\ trees[z][k].y <= Grid

\* The same for the inputs whose longitudes lie in [-180, 180] and whose
\* Cartesian coordinates lie in the configured range
RowsInUnitSquareInRange ==
    (Loaded /\ \A i \in PointIndices :
                 IF options.coordinate_system = "Cartesian"
                   THEN /\ range_offset(options.range) <= points[i + 1].x
                        /\ points[i + 1].x <= range_offset(options.range) + range_scale(options.range)
                        /\ range_offset(options.range) <= points[i + 1].y
                        /\ points[i + 1].y <= range_offset(options.range) + range_scale(options.range)
                   ELSE -HalfTurn <= points[i + 1].x /\ points[i + 1].x <= HalfTurn)
      => \A z \in Zooms : \A k \in 1 .. Len(trees[z]) :
           /\ 0 <= trees[z][k].x /\ trees[z][k].x <= Grid
           /\ 0 <= trees[z][k].y /\ trees[z][k].y <= Grid

\* The last operation is get_tile(0, 0, 0) on the index of the example: the
\* options of examples/cartesian_coordinates.rs loaded with its three points
ExampleTile ==
    /\ options = ExampleOptions
    /\ Len(points) = 3
    /\ SeqToSet(points) = ExampleFeatures
    /\ res.op = "get_tile"
    /\ res.z = 0 /\ res.x = 0 /\ res.y = 0

\* The tile pixels of the features of the last tile
TilePixels == {<<f.x, f.y>> : f \in SeqToSet(res.features)}

\* C20 as stated: in Cartesian mode with range (0,0)..(2,2), radius 40,
\* extent 512, min_points 2 and the points (0,0), (1,1), (2,2),
\* get_tile(0, 0, 0) returns exactly one feature: a cluster of 3 points at
\* the centroid, the tile pixel (256, 256).
C20_ExampleTileOneCluster ==
    ExampleTile =>
        /\ res.status = "Ok"
        /\ Len(res.features) = 1
        /\ res.features[1].cluster
        /\ \E k \in 1 .. Len(trees[res.zoom]) :
             trees[res.zoom][k].id = res.features[1].id /\ trees[res.zoom][k].num = 3
        /\ TilePixels = {<<256, 256>>}

\* C20 (amended): with the same options and points, get_tile(0, 0, 0)
\* returns five features, none of them a cluster: the three points at the
\* tile pixels (0, 0), (256, 256) and (512, 512), then the copy of (2, 2)
\* from the east wrap band at (0, 512) and the copy of (0, 0) from the west
\* wrap band at (512, 0).
C20_ExampleTileFivePoints ==
    ExampleTile =>
        /\ res.status = "Ok"
        /\ Len(res.features) = 5
        /\ \A f \in SeqToSet(res.features) : ~f.cluster
        /\ TilePixels = {<<0, 0>>, <<256, 256>>, <<512, 512>>, <<0, 512>>, <<512, 0>>}
        /\ <<res.features[4].x, res.features[4].y>> = <<0, 512>>
        /\ <<res.features[5].x, res.features[5].y>> = <<512, 0>>
        /\ points[res.features[4].id + 1] = Feat("Point", 2, 2, TRUE)
        /\ points[res.features[5].id + 1] = Feat("Point", 0, 0, TRUE)

\* C20 witness: get_tile(0, 0, 0) was asked of the example's index.
C20_Witness == ExampleTile /\ res.status = "Ok" /\ Len(trees[0]) = 3

\* The input holds fewer points than min_points
FewPoints == Loaded /\ Cardinality(PointIndices) < options.min_points

\* The last operation is get_tile(0, 0, 0)
TileZero == res.op = "get_tile" /\ res.z = 0 /\ res.x = 0 /\ res.y = 0

\* C21: when the input holds fewer points than min_points, no cluster row
\* exists at any zoom, and get_tile(0, 0, 0) returns one individual feature
\* for each input point, none of them a cluster.
C21_FewPointsTile ==
    FewPoints =>
        /\ \A z \in Zooms : \A k \in 1 .. Len(trees[z]) : trees[z][k].num = 1
        /\ TileZero =>
             /\ \A f \in SeqToSet(res.features) : ~f.cluster
             /\ {f.id : f \in SeqToSet(res.features)} = PointIndices
             /\ Len(res.features) = Cardinality(PointIndices)

\* The part of C21 that holds: no cluster row at any zoom, no cluster in the
\* tile, every feature of the tile is an input point, and every input point
\* that carries properties and lies in the world square is in the tile
FewPointsTileOfPoints ==
    FewPoints =>
        /\ \A z \in Zooms : \A k \in 1 .. Len(trees[z]) : trees[z][k].num = 1
        /\ TileZero =>
             /\ \A f \in SeqToSet(res.features) : ~f.cluster
             /\ {f.id : f \in SeqToSet(res.features)} \subseteq PointIndices
             /\ \A i \in PointIndices :
                  (/\ points[i + 1].properties
                   /\ to_nx(options, points[i + 1].x) \in 0 .. Grid)
                    => \E f \in SeqToSet(res.features) : f.id = i

\* The abbreviation C22 describes: round(w / 100) / 10 between 1000 and 10000
AbbrevRounded(count) ==
    IF count >= 10000 THEN FormatThousandths(count, "k")
    ELSE IF count >= 1000 THEN FormatThousandths(Round(count, 100) * 100, "k")
    ELSE FormatThousandths(count * 1000, "")

\* C22 as stated: for every cluster weight w, point_count_abbreviated is the
\* decimal w when w < 1000, round(w / 100) / 10 followed by "k" when
\* 1000 <= w < 10000 (at most one digit after the point: 1234 gives 1.2k),
\* and w / 1000 followed by "k" when w >= 10000.
C22_AbbreviatedRounded ==
    (res.op = "get_cluster_metadata") =>
        /\ res.properties.point_count = res.count
        /\ res.properties.point_count_abbreviated = AbbrevRounded(res.count)
        /\ (1000 <= res.count /\ res.count < 10000)
             => Len(res.properties.point_count_abbreviated.fraction) <= 1

\* The same for the weights below 1000, from 10000 on, and the multiples of
\* 100 between
AbbreviatedRoundedOutsideThousands ==
    (res.op = "get_cluster_metadata"
       /\ (res.count < 1000 \/ res.count >= 10000 \/ res.count % 100 = 0)) =>
        res.properties.point_count_abbreviated = AbbrevRounded(res.count)

\* The row is the leaf row of the input feature at the position row.id
LeafRowOfFeature(row) ==
    /\ row.id \in PointIndices
    /\ row.x = to_nx(options, points[row.id + 1].x)
    /\ row.y = to_ny(options, points[row.id + 1].y)

\* The individual features the last query returned
ReturnedLeaves ==
    CASE res.op = "get_children" -> {f \in SeqToSet(res.children) : ~f.cluster}
      [] res.op = "get_clusters" -> {f \in SeqToSet(res.features) : ~f.cluster}
      [] res.op = "get_tile" ->
           {PointFeature(points, f.id) : f \in {g \in SeqToSet(res.features) : ~g.cluster}}
      [] OTHER -> {}

\* C23: load succeeds on inputs that hold features without a Point geometry;
\* such features have no row at any zoom, the id of every leaf row is the
\* position of its feature in the input, and every individual feature a
\* query returns is the input feature at the position of a leaf row.
C23_SkippedFeatures ==
    Loaded =>
        /\ \A z \in Zooms :
             /\ z \in DOMAIN trees
             /\ \A k \in 1 .. Len(trees[z]) :
                  trees[z][k].num = 1 => LeafRowOfFeature(trees[z][k])
        /\ {trees[options.max_zoom + 1][k].id : k \in 1 .. Len(trees[options.max_zoom + 1])}
             = PointIndices
        /\ Len(trees[options.max_zoom + 1]) = Cardinality(PointIndices)
        /\ \A f \in ReturnedLeaves :
             /\ f.index \in PointIndices
             /\ f = PointFeature(points, f.index)
             /\ \E k \in 1 .. Len(trees[options.max_zoom + 1]) :
                  trees[options.max_zoom + 1][k].id = f.index

\* C23 witness: the input begins with a feature without a Point geometry,
\* and a query on a cluster returned a point that stands after it.
C23_Witness ==
    /\ Loaded
    /\ Len(points) >= 1
    /\ points[1].geometry # "Point"
    /\ res.op = "get_children"
    /\ Cardinality(ReturnedLeaves) >= 2
    /\ \E f \in ReturnedLeaves : ~f.properties

\* Decoding the id of the cluster row recovers the pair it was built from:
\* the store the cluster was formed from and the row of its seed there
DecodesToSeed(row) ==
    LET z == DecodedZoom(row.id)
        r == DecodedRow(row.id)
    IN /\ z \in Zooms
       /\ z \in DOMAIN trees
       /\ r < Len(trees[z])
       /\ trees[z][r + 1].parent = row.id

\* The ids written as parent ids in the store at zoom z: those of the
\* clusters formed from it
IdsFormedFrom(z) == {trees[z][k].parent : k \in 1 .. Len(trees[z])} \ {-1}

\* C24: configuration never yields options with max_zoom > 30, so for every
\* load the zoom part of each cluster id fits in 5 bits: the clusters formed
\* from distinct (row, zoom) pairs carry distinct ids, and decoding an id
\* recovers the pair it was built from.
C24_ZoomFitsFiveBits ==
    /\ options.max_zoom <= 30
    /\ Loaded =>
         /\ \A z \in Zooms : \A k \in 1 .. Len(trees[z]) :
              trees[z][k].num > 1 => DecodesToSeed(trees[z][k])
         /\ \A z1 \in Zooms : \A z2 \in Zooms :
              z1 # z2 => IdsFormedFrom(z1) \cap IdsFormedFrom(z2) = {}

\* The second half of C24 for the options whose max_zoom is at most 30
IdsDecodeUpToZoom30 ==
    (Loaded /\ options.max_zoom <= 30) =>
         /\ \A z \in Zooms : \A k \in 1 .. Len(trees[z]) :
              trees[z][k].num > 1 => DecodesToSeed(trees[z][k])
         /\ \A z1 \in Zooms : \A z2 \in Zooms :
              z1 # z2 => IdsFormedFrom(z1) \cap IdsFormedFrom(z2) = {}

\* The last operation is the iteration of cluster over a seed: a row not yet
\* processed at the zoom of the pass
SeedStep == res.op = "cluster" /\ res.before.data[res.i].zoom > res.zoom

\* The neighbours of the seed that count: the other rows within the radius
\* whose zoomProcessed is above the zoom of the pass
Qualifying ==
    LET b == res.before.data
    IN {k \in 1 .. Len(b) :
          /\ k # res.i
          /\ InDisk(b[k], b[res.i].x, b[res.i].y, RadiusAt(options, res.zoom))
          /\ b[k].zoom > res.zoom}

RECURSIVE SumOver(_, _, _)
SumOver(S, data, field) ==
    IF S = {} THEN 0
    ELSE LET k == CHOOSE j \in S : TRUE
         IN (IF field = "num" THEN data[k].num
             ELSE IF field = "x" THEN data[k].x * data[k].num
             ELSE data[k].y * data[k].num)
            + SumOver(S \ {k}, data, field)

\* W_new: the weight of the seed plus the weights of the qualifying neighbours
NewWeight == SumOver(Qualifying \cup {res.i}, res.before.data, "num")

\* The rows the iteration pushed to the next store
Emitted == SubSeq(res.after.next, Len(res.before.next) + 1, Len(res.after.next))

FormsCluster ==
    /\ NewWeight >= options.min_points
    /\ NewWeight > res.before.data[res.i].num

\* C25: in the pass at zoom z a seed forms a cluster if and only if
\* W_new >= min_points and W_new > W_seed; then exactly one row [weighted mean
\* x, weighted mean y, +inf, new id, -1, W_new] is emitted, and the seed and
\* every counted neighbour get parentId = new id and zoomProcessed = z.
C25_SeedFormsCluster ==
    SeedStep =>
        LET b == res.before.data
            a == res.after.data
            members == Qualifying \cup {res.i}
            id == (res.i - 1) * 32 + (res.zoom + 1) + Len(points)
        IN IF FormsCluster
             THEN /\ Len(Emitted) = 1
                  /\ Emitted[1].x * NewWeight = SumOver(members, b, "x")
                  /\ Emitted[1].y * NewWeight = SumOver(members, b, "y")
                  /\ Emitted[1].zoom = INFINITY
                  /\ Emitted[1].id = id
                  /\ Emitted[1].parent = -1
                  /\ Emitted[1].num = NewWeight
                  /\ \A k \in 1 .. Len(b) :
                       IF k \in members
                         THEN a[k] = [b[k] EXCEPT !.parent = id, !.zoom = res.zoom]
                         ELSE a[k] = b[k]
             ELSE /\ \A j \in 1 .. Len(Emitted) :
                       \E k \in 1 .. Len(b) : Emitted[j] = [b[k] EXCEPT !.zoom = res.zoom]
                  /\ \A k \in 1 .. Len(b) : a[k].parent = b[k].parent

\* C25 witness: a seed that is a cluster already absorbed a neighbour, and
\* the new cluster lies elsewhere than the seed.
C25_Witness ==
    /\ SeedStep
    /\ FormsCluster
    /\ res.before.data[res.i].num > 1
    /\ Emitted[1].x # res.before.data[res.i].x

\* The copy of the row k of the store that the pass pushes: the row with its
\* zoomProcessed set to the zoom of the pass
Stamped(k) == [res.before.data[k] EXCEPT !.zoom = res.zoom]

\* The rows emitted after the first are the stamped rows of S, each once
EmittedAfterSeed(S) ==
    /\ Len(Emitted) = 1 + Cardinality(S)
    /\ {Emitted[j] : j \in 2 .. Len(Emitted)} = {Stamped(k) : k \in S}
    /\ \A k \in S : Cardinality({j \in 2 .. Len(Emitted) : Emitted[j] = Stamped(k)})
                      = Cardinality({l \in S : Stamped(l) = Stamped(k)})

\* C26 as stated: when a seed does not form a cluster a copy of the seed is
\* emitted, and its qualifying neighbours are stamped and emitted alongside
\* it only if the weight of the seed was already above 1; when the weight of
\* the seed is 1 its neighbours stay unstamped and are processed as seeds
\* later.
C26_NeighboursCarriedByClusterSeed ==
    (SeedStep /\ ~FormsCluster) =>
        /\ Emitted[1] = Stamped(res.i)
        /\ IF res.before.data[res.i].num > 1
             THEN /\ EmittedAfterSeed(Qualifying)
                  /\ \A k \in Qualifying : res.after.data[k] = Stamped(k)
             ELSE /\ Len(Emitted) = 1
                  /\ \A k \in Qualifying : res.after.data[k] = res.before.data[k]

\* C26 (amended): when a seed does not form a cluster a copy of the seed is
\* emitted, and every qualifying neighbour is stamped and emitted alongside
\* it, whatever the weight of the seed (the test is W_new > 1, which holds as
\* soon as a neighbour qualifies); no other row of the store changes.
C26_NeighboursCarried ==
    (SeedStep /\ ~FormsCluster) =>
        /\ Emitted[1] = Stamped(res.i)
        /\ EmittedAfterSeed(Qualifying)
        /\ \A k \in 1 .. Len(res.before.data) :
             res.after.data[k] = IF k \in Qualifying \cup {res.i} THEN Stamped(k)
                                 ELSE res.before.data[k]

\* C26 witness: a seed of weight 1 with a qualifying neighbour formed no
\* cluster.
C26_Witness ==
    /\ SeedStep
    /\ ~FormsCluster
    /\ res.before.data[res.i].num = 1
    /\ Qualifying # {}

\* The sum of the normalized positions of the input points of S
RECURSIVE SumOfPoints(_, _)
SumOfPoints(S, axis) ==
    IF S = {} THEN 0
    ELSE LET i == CHOOSE j \in S : TRUE
         IN (IF axis = "x" THEN to_nx(options, points[i + 1].x)
             ELSE to_ny(options, points[i + 1].y))
            + SumOfPoints(S \ {i}, axis)

\* C27: for every cluster row at every zoom, its normalized position times
\* its weight is the sum of the normalized positions of the input points
\* under it: the position is the centroid of the leaves of the cluster,
\* however many levels it was merged through.
C27_CentroidOfLeaves ==
    Loaded => \A z \in Zooms : \A k \in 1 .. Len(trees[z]) :
                trees[z][k].num > 1 =>
                  /\ Cardinality(LeavesOfRow(trees[z][k])) = trees[z][k].num
                  /\ trees[z][k].x * trees[z][k].num = SumOfPoints(LeavesOfRow(trees[z][k]), "x")
                  /\ trees[z][k].y * trees[z][k].num = SumOfPoints(LeavesOfRow(trees[z][k]), "y")

\* C27 witness: a cluster of three points was merged from a cluster and a
\* point that lies elsewhere.
C27_Witness ==
    /\ res.op = "load"
    /\ \E z \in Zooms : \E k \in 1 .. Len(trees[z]) :
         /\ trees[z][k].num = 3
         /\ \E f \in SeqToSet(get_children(options, points, trees, trees[z][k].id).children) :
              /\ f.cluster
              /\ \E l \in 1 .. Len(trees[z + 1]) :
                   /\ trees[z + 1][l].id = f.cluster_id
                   /\ trees[z + 1][l].x # trees[z][k].x

\* The point counts of the features of q, from the j-th on: 1 for an
\* individual point, point_count for a cluster
RECURSIVE SumPointCounts(_, _)
SumPointCounts(q, j) ==
    IF j > Len(q) THEN 0
    ELSE (IF q[j].cluster THEN q[j].point_count ELSE 1) + SumPointCounts(q, j + 1)

\* The weights of the cluster rows that carry the id c
WeightsOfId(c) ==
    UNION {{trees[z][k].num : k \in ClusterRowsWithId(z, c)} : z \in DOMAIN trees}

\* C28: for every cluster id c formed by load, the point counts of the
\* features get_children(c) returns (1 for an individual point, point_count
\* for a child cluster) sum to the point_count of c.
C28_ChildrenCountsSum ==
    (res.op = "get_children" /\ res.cluster_id \in FormedIds) =>
        /\ res.status = "Ok"
        /\ WeightsOfId(res.cluster_id) = {SumPointCounts(res.children, 1)}

\* C28 witness: get_children returned a cluster beside an individual point.
C28_Witness ==
    /\ res.op = "get_children"
    /\ res.cluster_id \in FormedIds
    /\ \E f \in SeqToSet(res.children) : f.cluster
    /\ \E f \in SeqToSet(res.children) : ~f.cluster

\* C29: every cluster formed by load has at least two children, its seed
\* and at least one absorbed neighbour; so for the id of every such cluster
\* get_children returns two or more features, and
\* get_cluster_expansion_zoom returns the zoom encoded in the id, one above
\* the zoom the cluster was formed at, its loop ending in its first
\* iteration.
C29_TwoChildrenOneIteration ==
    (res.op = "get_cluster_expansion_zoom" /\ res.cluster_id \in FormedIds) =>
        LET c == res.cluster_id
            kids == get_children(options, points, trees, c)
        IN /\ kids.status = "Ok"
           /\ Len(kids.children) >= 2
           /\ Cardinality(RowsWithParent(trees[DecodedZoom(c)], c)) >= 2
           /\ trees[DecodedZoom(c)][DecodedRow(c) + 1].parent = c
           /\ res.zoom = DecodedZoom(c)
           /\ ClusterRowsWithId(res.zoom - 1, c) # {}
           /\ DecodedZoom(c) - 1 <= options.max_zoom

\* C29 witness: the expansion zoom was asked for a cluster one of whose
\* children is a cluster.
C29_Witness ==
    /\ res.op = "get_cluster_expansion_zoom"
    /\ res.cluster_id \in FormedIds
    /\ \E z \in Zooms : \E k \in 1 .. Len(trees[z]) :
         trees[z][k].num > 1 /\ trees[z][k].parent = res.cluster_id

\* The features of the last tile that come from the row k of the store
FeaturesOfRow(k) ==
    LET row == trees[res.zoom][k]
    IN {j \in 1 .. Len(res.features) :
          res.features[j].id = row.id /\ res.features[j].cluster = (row.num > 1)}

\* The bands of the last tile the row k lies in
BandsOfRow(k) == {band \in {"main", "east", "west"} : k \in TileBandRows(band)}

====
